---------------------------- MODULE Spec2Model ----------------------------
(***************************************************************************)
(* A model of the authenticated decryption-key acquisition pipeline of     *)
(* mubi-downloader: AuthManager (auth_manager.py) and DownloadManager      *)
(* (mubi_downloader.py).                                                   *)
(*                                                                         *)
(* Data representation                                                     *)
(*  - A bearer-token string is a sequence of lexical pieces: "Bearer" (the  *)
(*    word in exactly that letter case), "BEARER" (the word in any other   *)
(*    letter case), " " (one blank) and "x" (a run of other characters).   *)
(*    Python's slices [6:] and [7:] drop one and two pieces.               *)
(*  - A session-context string (dt-custom-data) is a record [form, json]:  *)
(*    form says how the text is written ("b64": base64 of a JSON text as   *)
(*    json.dumps writes it, "b64_compact": base64 of a JSON text written   *)
(*    otherwise, as a browser does without blanks after ',' and ':',       *)
(*    "raw": a JSON text, "junk": neither, "empty": the empty string) and  *)
(*    json is the JSON value the text denotes.                             *)
(*  - A JSON value is [kind, members]: an object with its member names, an *)
(*    array with its string elements, a string with the field names that   *)
(*    occur in it, or a scalar (number, true, false, null).                *)
(*  - Bytes are 0..255, a base64 text is a sequence of sextets 0..63 with  *)
(*    64 for the padding character '='.                                    *)
(***************************************************************************)
EXTENDS Integers, Sequences, FiniteSets, TLC

VARIABLES
    \* inputs and result of AuthManager._validate_token (SpecValidate)
    auth_token, dt_custom_data, entry, validated,
    \* inputs and results of DownloadManager._generate_pssh (SpecPssh)
    key_id, key_id2, pssh, pssh2,
    \* DownloadManager.download_and_decrypt (Spec)
    pc, gui_capable, cred, auth_headers, headers, requests, error,
    check_data, api_response, manifest, cdm_response, decryption_key,
    invoked, files,
    \* generate_headers: the strategies entered so far, its list `errors`,
    \* and whether a KeyboardInterrupt was raised in a blocking input()
    attempted, errors, interrupted,
    \* the key service as the pending POST meets it, the os.listdir result
    \* still to be walked, and the logger.error records of the track stage
    cdm_service, listing, log,
    \* AuthManager.get_browser_cookies and the cookie strategy of
    \* generate_headers (SpecCookies)
    cookie_pc, browser_name, store, browser_cookies, cookie_headers,
    cookie_error,
    \* MkvMerger.merge_to_mkv (SpecMerge)
    merge_pc, media_files, returncode, mkvmerge_runs, merge_result,
    \* main (SpecMain)
    main_pc, user_country, movie_info, download_calls, exit_code, report,
    \* AuthManager._read_locked_sqlite (SpecSqlite)
    sq_pc, os_name, db_exists, attempt, conn_open, temp_files, sq_errors,
    sq_result

vars == <<auth_token, dt_custom_data, entry, validated,
          key_id, key_id2, pssh, pssh2,
          pc, gui_capable, cred, auth_headers, headers, requests, error,
          check_data, api_response, manifest, cdm_response, decryption_key,
          invoked, files, attempted, errors, interrupted, cdm_service,
          listing, log,
          cookie_pc, browser_name, store, browser_cookies, cookie_headers,
          cookie_error,
          merge_pc, media_files, returncode, mkvmerge_runs, merge_result,
          main_pc, user_country, movie_info, download_calls, exit_code, report,
          sq_pc, os_name, db_exists, attempt, conn_open, temp_files, sq_errors,
          sq_result>>

validate_vars == <<auth_token, dt_custom_data, entry, validated>>
pssh_vars == <<key_id, key_id2, pssh2>>
track_vars == <<cdm_service, listing, log>>
supply_vars == <<attempted, errors, interrupted>>
cookie_vars == <<cookie_pc, browser_name, store, browser_cookies,
                 cookie_headers, cookie_error>>
merge_vars == <<merge_pc, media_files, returncode, mkvmerge_runs, merge_result>>
main_vars == <<main_pc, user_country, movie_info, download_calls, exit_code,
               report>>
sqlite_vars == <<sq_pc, os_name, db_exists, attempt, conn_open, temp_files,
                 sq_errors, sq_result>>
side_vars == <<cookie_vars, merge_vars, main_vars, sqlite_vars>>
pipeline_vars == <<pc, gui_capable, cred, auth_headers, headers, requests, error,
                   check_data, api_response, manifest, cdm_response, decryption_key,
                   invoked, files, attempted, errors, interrupted, cdm_service,
                   listing, log>>

(***************************************************************************)
(* Bounds                                                                  *)
(***************************************************************************)
MaxTokLen == 4

(***************************************************************************)
(* Python values                                                           *)
(***************************************************************************)
None == [none |-> TRUE]
EmptyDict == [k \in {} |-> 0]

\* A Python dict {'Authorization': a, 'dt-custom-data': d}
AuthDict(a, d) == ("Authorization" :> a) @@ ("dt-custom-data" :> d)

\* a str variable that holds no value (not yet assigned, or None): the
\* strings such variables hold in this model are never empty
Unset == <<>>

\* truthiness of a dict or None
Truthy(h) == h # None /\ DOMAIN h # {}

(***************************************************************************)
(* Bearer-token strings                                                    *)
(***************************************************************************)
Pieces == {"Bearer", "BEARER", " ", "x"}

SeqsUpTo(S, n) == UNION {[1..k -> S] : k \in 0..n}

Tokens == SeqsUpTo(Pieces, MaxTokLen)

Drop(s, n) == SubSeq(s, n + 1, Len(s))

RECURSIVE lstrip(_)
lstrip(s) ==
    IF s # <<>> /\ Head(s) = " " THEN lstrip(Tail(s)) ELSE s

RECURSIVE rstrip(_)
rstrip(s) ==
    IF s # <<>> /\ s[Len(s)] = " " THEN rstrip(SubSeq(s, 1, Len(s) - 1)) ELSE s

\* str.strip()
strip(s) == rstrip(lstrip(s))

\* s.lower().startswith('bearer ')
startswith_bearer_sp(s) ==
    Len(s) >= 2 /\ s[1] \in {"Bearer", "BEARER"} /\ s[2] = " "

\* s.lower().startswith('bearer')
startswith_bearer(s) ==
    Len(s) >= 1 /\ s[1] \in {"Bearer", "BEARER"}

\* s.replace('Bearer ', ''): every occurrence, case-sensitive, left to right
RECURSIVE replace_bearer_sp(_)
replace_bearer_sp(s) ==
    IF s = <<>> THEN <<>>
    ELSE IF Len(s) >= 2 /\ s[1] = "Bearer" /\ s[2] = " "
         THEN replace_bearer_sp(Drop(s, 2))
         ELSE <<Head(s)>> \o replace_bearer_sp(Tail(s))

\* f'Bearer {s}'
bearer_of(s) == <<"Bearer", " ">> \o s

(***************************************************************************)
(* Session-context strings and JSON                                        *)
(***************************************************************************)
required_fields == {"userId", "sessionId", "merchant"}

JsonValues ==
    {[kind |-> k, members |-> m] :
        k \in {"object", "array", "string"}, m \in SUBSET required_fields}
    \cup {[kind |-> "scalar", members |-> {}]}

NoJson == [kind |-> "none", members |-> {}]

EmptyStr == [form |-> "empty", json |-> NoJson]
JunkStr == [form |-> "junk", json |-> NoJson]

CustomDatas ==
    {[form |-> f, json |-> j] :
        f \in {"b64", "b64_compact", "raw"}, j \in JsonValues}
    \cup {EmptyStr, JunkStr}

\* json.loads(base64.b64decode(s)): only a base64 text of a JSON text decodes
b64decode_json_loads(s) ==
    IF s.form \in {"b64", "b64_compact"} THEN [ok |-> TRUE, value |-> s.json]
    ELSE [ok |-> FALSE, value |-> NoJson]

\* json.loads(s): only a JSON text parses
json_loads(s) ==
    IF s.form = "raw" THEN [ok |-> TRUE, value |-> s.json]
    ELSE [ok |-> FALSE, value |-> NoJson]

\* base64.b64encode(json.dumps(v).encode()).decode(): the text json.dumps
\* writes, whatever text the value was read from
b64encode_json_dumps(v) == [form |-> "b64", json |-> v]

\* Python's `field in v`: key of a dict, element of a list, substring of a
\* str; a TypeError for every other value
in_raises(v) == v.kind \notin {"object", "array", "string"}
in_value(field, v) == field \in v.members

\* Python's `v.keys()`: an AttributeError unless v is a dict
keys_raises(v) == v.kind # "object"

(***************************************************************************)
(* AuthManager._validate_token                                             *)
(***************************************************************************)
Invalid == [valid |-> FALSE, headers |-> None]

\* lines 470-475: strip, then drop one leading 'bearer ' or 'bearer'
clean_auth_token(t) ==
    LET s == strip(t)
    IN  IF startswith_bearer_sp(s) THEN Drop(s, 2)
        ELSE IF startswith_bearer(s) THEN Drop(s, 1)
        ELSE s

\* lines 477-491: base64 first, then plain JSON re-encoded as base64
decode_custom_data(d) ==
    LET b == b64decode_json_loads(d)
        j == json_loads(d)
    IN  IF b.ok THEN [ok |-> TRUE, custom_data |-> b.value, dt |-> d]
        ELSE IF j.ok
             THEN [ok |-> TRUE, custom_data |-> j.value,
                   dt |-> b64encode_json_dumps(j.value)]
             ELSE [ok |-> FALSE, custom_data |-> NoJson, dt |-> d]

\* a plausible slip: merchant is not asked for
has_required_fields_mut(custom_data) ==
    \A field \in {"userId", "sessionId"} : in_value(field, custom_data)

\* lines 494-497: all(field in custom_data for field in required_fields)
has_required_fields(custom_data) ==
    \A field \in required_fields : in_value(field, custom_data)

\* Every exception raised inside the try of lines 469-510 ends in the
\* handler of lines 512-515, which returns (False, None): the TypeError of
\* `field in custom_data` on a scalar, and the AttributeError of
\* custom_data.keys() (line 507, evaluated for the log message whatever
\* the log level) on a value that is not a dict.
validate_token(t, d) ==
    IF t = <<>> \/ d.form = "empty" THEN Invalid
    ELSE LET tok == clean_auth_token(t)
             dec == decode_custom_data(d)
         IN  IF ~dec.ok THEN Invalid
             ELSE IF in_raises(dec.custom_data) THEN Invalid
             ELSE IF ~has_required_fields(dec.custom_data) THEN Invalid
             ELSE IF keys_raises(dec.custom_data) THEN Invalid
             ELSE [valid |-> TRUE,
                   headers |-> AuthDict(bearer_of(tok), dec.dt)]

\* _prompt_authentication_method, choice "2" (lines 556-563): what is handed
\* to _validate_token for the typed Authorization value
manual_auth_token(typed) ==
    LET s == strip(typed)
        t == IF startswith_bearer_sp(s) THEN s ELSE bearer_of(s)
    IN  replace_bearer_sp(t)

manual_entry(typed_token, typed_data) ==
    validate_token(manual_auth_token(typed_token), typed_data)

(***************************************************************************)
(* Hexadecimal texts, bytes and base64                                     *)
(***************************************************************************)
HexDigits == <<"0", "1", "2", "3", "4", "5", "6", "7",
               "8", "9", "a", "b", "c", "d", "e", "f">>
UpperDigits == <<"0", "1", "2", "3", "4", "5", "6", "7",
                 "8", "9", "A", "B", "C", "D", "E", "F">>

IsHex(c) == \E i \in 1..16 : HexDigits[i] = c \/ UpperDigits[i] = c

HexVal(c) == (CHOOSE i \in 1..16 : HexDigits[i] = c \/ UpperDigits[i] = c) - 1

\* bytes.fromhex(s) raises ValueError on a character that is no hex digit
\* and on an odd number of digits
fromhex_raises(s) ==
    \/ \E i \in 1..Len(s) : ~IsHex(s[i])
    \/ Len(s) % 2 = 1

fromhex(s) ==
    [i \in 1..(Len(s) \div 2) |-> 16 * HexVal(s[2 * i - 1]) + HexVal(s[2 * i])]

\* bytes.hex()
hex(b) ==
    [i \in 1..(2 * Len(b)) |->
        IF i % 2 = 1 THEN HexDigits[(b[(i + 1) \div 2] \div 16) + 1]
        ELSE HexDigits[(b[i \div 2] % 16) + 1]]

Pad == 64

\* base64.b64encode: three bytes give four sextets, the last group is
\* filled with '='
b64encode(b) ==
    LET n == Len(b)
        byte(k) == IF k <= n THEN b[k] ELSE 0
        word(g) == byte(3 * g + 1) * 65536 + byte(3 * g + 2) * 256 + byte(3 * g + 3)
        sextet(g, j) ==
            CASE j = 0 -> word(g) \div 262144
              [] j = 1 -> (word(g) \div 4096) % 64
              [] j = 2 -> (word(g) \div 64) % 64
              [] j = 3 -> word(g) % 64
    IN  [i \in 1..(4 * ((n + 2) \div 3)) |->
            LET g == (i - 1) \div 4
                j == (i - 1) % 4
            IN  IF 3 * g + j > n THEN Pad ELSE sextet(g, j)]

\* str.replace('-', '')
RECURSIVE remove_hyphens(_)
remove_hyphens(s) ==
    IF s = <<>> THEN <<>>
    ELSE IF Head(s) = "-" THEN remove_hyphens(Tail(s))
         ELSE <<Head(s)>> \o remove_hyphens(Tail(s))

(***************************************************************************)
(* DownloadManager._generate_pssh                                          *)
(***************************************************************************)
\* b'2pssh'
PsshPrefix == <<50, 112, 115, 115, 104>>

\* bytes.fromhex("edef8ba979d64acea3c827dcd51d21ed")
SystemIdHex == <<"e", "d", "e", "f", "8", "b", "a", "9", "7", "9", "d", "6",
                 "4", "a", "c", "e", "a", "3", "c", "8", "2", "7", "d", "c",
                 "d", "5", "1", "d", "2", "1", "e", "d">>

\* the key id of tests/test_mubi_downloader.py, hyphens removed
BaseKid == <<"1", "2", "3", "4", "5", "6", "7", "8", "1", "2", "3", "4",
             "1", "2", "3", "4", "1", "2", "3", "4", "1", "2", "3", "4",
             "5", "6", "7", "8", "9", "0", "1", "2">>

generate_pssh_raises(k) == fromhex_raises(k)

\* a plausible slip: the last byte of the key id is left out
generate_pssh_mut(k) ==
    LET kb == fromhex(k)
        array_of_bytes ==
            PsshPrefix \o fromhex(SystemIdHex) \o <<>> \o SubSeq(kb, 1, Len(kb) - 1)
    IN  b64encode(fromhex(hex(array_of_bytes)))

generate_pssh(k) ==
    LET array_of_bytes == PsshPrefix \o fromhex(SystemIdHex) \o <<>> \o fromhex(k)
    IN  b64encode(fromhex(hex(array_of_bytes)))

(***************************************************************************)
(* Cookies and AuthManager._extract_auth_from_cookies                      *)
(*                                                                         *)
(* A cookie is [domain, name, token, data]: the value of an authToken      *)
(* cookie is the bearer-token string `token`, the value of a dtCustomData  *)
(* cookie the session-context string `data`; the other field is empty.     *)
(* None and '' are both falsy and the code only tests truthiness, so an    *)
(* absent value is the empty string.                                       *)
(***************************************************************************)
MaxCookies == 2

Domains == {"mubi.com", ".mubi.com", "notmubi.com", "example.com"}

\* 'mubi.com' in domain.lstrip('.') (the test against 'api.mubi.com' adds
\* nothing: a text that holds 'api.mubi.com' holds 'mubi.com')
contains_mubi_com(domain) == domain \in {"mubi.com", ".mubi.com", "notmubi.com"}

FullObject == [kind |-> "object", members |-> required_fields]
NoMerchant == [kind |-> "object", members |-> {"userId", "sessionId"}]

TokenSamples == {<<"x">>, <<"Bearer", " ", "x">>, <<>>}
DataSamples == {[form |-> "b64", json |-> FullObject],
                [form |-> "b64_compact", json |-> FullObject],
                [form |-> "raw", json |-> FullObject],
                [form |-> "b64", json |-> NoMerchant],
                JunkStr, EmptyStr}

CookieSamples ==
    {[domain |-> d, name |-> "authToken", token |-> t, data |-> EmptyStr] :
        d \in Domains, t \in TokenSamples \ {<<"Bearer", " ", "x">>}}
    \cup
    {[domain |-> d, name |-> "dtCustomData", token |-> <<>>, data |-> x] :
        d \in Domains, x \in DataSamples \ {JunkStr}}

CookieLists == SeqsUpTo(CookieSamples, MaxCookies)

Max(S) == CHOOSE x \in S : \A y \in S : y <= x
Min(S) == CHOOSE x \in S : \A y \in S : x <= y

\* lines 586-594: exact domain, the last matching cookie wins
exact_domain(cookies, name) ==
    LET idx == {i \in 1..Len(cookies) :
                    cookies[i].domain = "mubi.com" /\ cookies[i].name = name}
    IN  IF idx = {} THEN [token |-> <<>>, data |-> EmptyStr]
        ELSE [token |-> cookies[Max(idx)].token, data |-> cookies[Max(idx)].data]

\* lines 596-606: a value still falsy is taken from the first cookie of a
\* domain that holds 'mubi.com' and has a truthy value
sub_domain(cookies, name, cur) ==
    LET idx == {i \in 1..Len(cookies) :
                    /\ contains_mubi_com(cookies[i].domain)
                    /\ cookies[i].name = name
                    /\ (cookies[i].token # <<>> \/ cookies[i].data # EmptyStr)}
    IN  IF idx = {} THEN cur
        ELSE [token |-> cookies[Min(idx)].token, data |-> cookies[Min(idx)].data]

\* the pair (auth_token, dt_custom_data) of lines 583-606
picked_cookies(cookies) ==
    LET a1 == exact_domain(cookies, "authToken").token
        d1 == exact_domain(cookies, "dtCustomData").data
        second == a1 = <<>> \/ d1 = EmptyStr
        a2 == IF second /\ a1 = <<>>
              THEN sub_domain(cookies, "authToken",
                              [token |-> a1, data |-> EmptyStr]).token
              ELSE a1
        d2 == IF second /\ d1 = EmptyStr
              THEN sub_domain(cookies, "dtCustomData",
                              [token |-> <<>>, data |-> d1]).data
              ELSE d1
    IN  [auth_token |-> a2, dt_custom_data |-> d2]

\* a plausible slip: the pair found is returned without validation
extract_auth_from_cookies_mut(cookies) ==
    LET p == picked_cookies(cookies)
    IN  IF p.auth_token # <<>> /\ p.dt_custom_data # EmptyStr
        THEN AuthDict(bearer_of(p.auth_token), p.dt_custom_data)
        ELSE EmptyDict

\* lines 608-616
extract_auth_from_cookies(cookies) ==
    LET p == picked_cookies(cookies)
        v == validate_token(p.auth_token, p.dt_custom_data)
    IN  IF p.auth_token # <<>> /\ p.dt_custom_data # EmptyStr
           /\ v.valid /\ Truthy(v.headers)
        THEN v.headers
        ELSE EmptyDict

(***************************************************************************)
(* AuthManager.generate_headers, one action per strategy                   *)
(***************************************************************************)
Err(type, msg) == [type |-> type, msg |-> msg]

Credential(strategy, t, d) ==
    [strategy |-> strategy, bearerToken |-> t, sessionContext |-> d]

\* a plausible slip: a handler swallows the exception and the step is taken
\* again
Fail_mut(e) ==
    /\ error' = e
    /\ UNCHANGED pc

\* an exception leaves download_and_decrypt: every handler on the way
\* (lines 221-223, 349-351, 401-403) logs and re-raises
Fail(e) ==
    /\ pc' = "failed"
    /\ error' = e

\* a plausible slip: the headers are kept but the escalation goes on
ReturnHeaders_mut(h, c) ==
    /\ auth_headers' = h
    /\ cred' = c
    /\ pc' = "prompt"
    /\ UNCHANGED error

\* generate_headers returns h, built from credential c
ReturnHeaders(h, c) ==
    /\ auth_headers' = h
    /\ cred' = c
    /\ pc' = "prepare_headers"
    /\ UNCHANGED error

AfterCookies == IF gui_capable THEN "active_session" ELSE "prompt"

\* the entry line 710 adds to `errors` when get_browser_cookies raises
\* Exception("No cookies found") (lines 453-454)
NoCookiesFound == "Cookie extraction failed: No cookies found"

\* the entry line 729 adds when input() raises EOFError
NoInput == "Active session extraction failed: EOF when reading a line"

\* a plausible slip: the collected causes are left out of the message
AllMethodsFailed_mut(errs) ==
    [type |-> "Exception", msg |-> "All authentication methods failed",
     errors |-> <<>>]

\* lines 742-744: the message ends with the entries of `errors`
AllMethodsFailed(errs) ==
    [type |-> "Exception", msg |-> "All authentication methods failed",
     errors |-> errs]

\* what _extract_auth_from_cookies finds in each cookie list: the pair picked
\* and the headers returned; empty tells the empty list, which
\* get_browser_cookies never returns and _load_cookie_file may
CookieOutcomes ==
    {[headers |-> extract_auth_from_cookies(cookies),
      picked |-> picked_cookies(cookies),
      empty |-> cookies = <<>>] : cookies \in CookieLists}

\* lines 697-711: get_browser_cookies raises, or returns a non-empty list
BrowserCookies ==
    /\ pc = "generate_headers"
    /\ attempted' = Append(attempted, "cookies")
    /\ UNCHANGED interrupted
    /\ \/ \* the browser yields no cookies
          /\ pc' = AfterCookies
          /\ errors' = Append(errors, NoCookiesFound)
          /\ UNCHANGED <<auth_headers, cred, error>>
       \/ \E o \in {c \in CookieOutcomes : ~c.empty} :
             LET h == o.headers
                 p == o.picked
             IN  /\ IF Truthy(h)
                    THEN ReturnHeaders(h, Credential("cookies", p.auth_token,
                                                     p.dt_custom_data))
                    ELSE /\ pc' = AfterCookies
                         /\ UNCHANGED <<auth_headers, cred, error>>
                 /\ UNCHANGED errors
    /\ UNCHANGED <<gui_capable, headers, requests, check_data, api_response,
                   manifest, cdm_response, decryption_key, invoked, files, pssh>>
    /\ UNCHANGED validate_vars
    /\ UNCHANGED pssh_vars
    /\ UNCHANGED side_vars
    /\ UNCHANGED track_vars

\* lines 714-730 with _extract_headers_from_active_session (618-679): the
\* Authorization and dt-custom-data headers of the browser's request are
\* returned as they were sent
ActiveSession ==
    /\ pc = "active_session"
    /\ \/ \* the answer is not 'y' or no URL is typed: the browser is not
          \* launched, on to the prompt
          /\ pc' = "prompt"
          /\ UNCHANGED <<auth_headers, cred, error, attempted, errors,
                         interrupted>>
       \/ \* input() raises an Exception (lines 728-730): on to the prompt
          /\ pc' = "prompt"
          /\ errors' = Append(errors, NoInput)
          /\ UNCHANGED <<auth_headers, cred, error, attempted, interrupted>>
       \/ \* the browser is launched, no request is seen or an exception is
          \* caught inside (lines 676-679): on to the prompt
          /\ pc' = "prompt"
          /\ attempted' = Append(attempted, "session")
          /\ UNCHANGED <<auth_headers, cred, error, errors, interrupted>>
       \/ \* KeyboardInterrupt at input() (line 718) is no Exception and is
          \* not caught
          /\ Fail(Err("KeyboardInterrupt", ""))
          /\ interrupted' = TRUE
          /\ UNCHANGED <<auth_headers, cred, attempted, errors>>
       \/ \E a \in TokenSamples \ {<<>>}, d \in DataSamples \ {EmptyStr} :
             /\ ReturnHeaders(AuthDict(a, d), Credential("session", a, d))
             /\ attempted' = Append(attempted, "session")
             /\ UNCHANGED <<errors, interrupted>>
    /\ UNCHANGED <<gui_capable, headers, requests, check_data, api_response,
                   manifest, cdm_response, decryption_key, invoked, files, pssh>>
    /\ UNCHANGED validate_vars
    /\ UNCHANGED pssh_vars
    /\ UNCHANGED side_vars
    /\ UNCHANGED track_vars

\* lines 732-744 with one round of the loop of _prompt_authentication_method
\* (530-575)
Prompt ==
    /\ pc = "prompt"
    /\ attempted' = IF attempted # <<>> /\ attempted[Len(attempted)] = "manual"
                    THEN attempted
                    ELSE Append(attempted, "manual")
    /\ UNCHANGED errors
    /\ \/ \* choice "1": the file fails to load or holds no valid pair; or
          \* an invalid choice: the loop goes round
          UNCHANGED <<pc, auth_headers, cred, error, interrupted>>
       \/ \* choice "1": a cookie file
          \E o \in CookieOutcomes :
             LET h == o.headers
                 p == o.picked
             IN  IF Truthy(h)
                 THEN /\ ReturnHeaders(h, Credential("cookie_file",
                                                      p.auth_token,
                                                      p.dt_custom_data))
                      /\ UNCHANGED interrupted
                 ELSE UNCHANGED <<pc, auth_headers, cred, error, interrupted>>
       \/ \* choice "2": typed values
          \E typed \in TokenSamples, d \in DataSamples :
             LET v == manual_entry(typed, d)
             IN  IF v.valid /\ Truthy(v.headers)
                 THEN /\ ReturnHeaders(v.headers,
                                       Credential("manual", typed, d))
                      /\ UNCHANGED interrupted
                 ELSE UNCHANGED <<pc, auth_headers, cred, error, interrupted>>
       \/ \* KeyboardInterrupt (line 574): ({}, False), then lines 741-744
          /\ Fail(AllMethodsFailed(errors))
          /\ interrupted' = TRUE
          /\ UNCHANGED <<auth_headers, cred>>
    /\ UNCHANGED <<gui_capable, headers, requests, check_data, api_response,
                   manifest, cdm_response, decryption_key, invoked, files, pssh>>
    /\ UNCHANGED validate_vars
    /\ UNCHANGED pssh_vars
    /\ UNCHANGED side_vars
    /\ UNCHANGED track_vars

(***************************************************************************)
(* DownloadManager._prepare_headers                                        *)
(***************************************************************************)
\* lines 342-345: the session context is decoded and encoded again; a text
\* that is no base64 of JSON raises
prepare_raises(h) == ~b64decode_json_loads(h["dt-custom-data"]).ok

\* line 343: auth_headers['dt-custom-data'] = base64 of json.dumps of the
\* decoded value, assigned in place
reencoded(h) ==
    [h EXCEPT !["dt-custom-data"] =
        b64encode_json_dumps(b64decode_json_loads(h["dt-custom-data"]).value)]

\* line 348: {**base_headers, **auth_headers}, the two authentication
\* members of the merged mapping
prepare_headers(h) ==
    AuthDict(h["Authorization"],
             b64encode_json_dumps(b64decode_json_loads(h["dt-custom-data"]).value))

\* _get_encryption_info lines 159-161 with _prepare_headers lines 341-348:
\* the re-encoded text is stored into the mapping generate_headers returned
\* (line 343), then the merged mapping is built. generate_headers has
\* returned, its record of strategies is gone.
PrepareHeaders ==
    /\ pc = "prepare_headers"
    /\ IF prepare_raises(auth_headers)
       THEN /\ Fail(Err("ValueError", "dt-custom-data cannot be decoded"))
            /\ UNCHANGED <<headers, auth_headers>>
       ELSE /\ auth_headers' = reencoded(auth_headers)
            /\ IF prepare_headers(auth_headers)["dt-custom-data"] = EmptyStr
               THEN /\ Fail(Err("ValueError",
                                "Missing required dt-custom-data header"))
                    /\ UNCHANGED headers
               ELSE /\ headers' = prepare_headers(auth_headers)
                    /\ pc' = "check_region"
                    /\ UNCHANGED error
    /\ attempted' = <<>>
    /\ errors' = <<>>
    /\ UNCHANGED <<gui_capable, cred, requests, check_data, interrupted,
                   api_response, manifest, cdm_response, decryption_key, invoked,
                   files, pssh>>
    /\ UNCHANGED validate_vars
    /\ UNCHANGED pssh_vars
    /\ UNCHANGED side_vars
    /\ UNCHANGED track_vars

(***************************************************************************)
(* DownloadManager._get_encryption_info                                    *)
(***************************************************************************)
\* the answer of GET https://api.mubi.com/v3/films/{film_id}
CheckResponses ==
    {[kind |-> "neterr", available |-> "absent"],
     [kind |-> "notjson", available |-> "absent"]}
    \cup {[kind |-> "json", available |-> a] : a \in {"absent", "true", "false"}}

\* a plausible slip: the field is never looked at
region_unavailable_mut(data) == FALSE

\* line 170: 'available' in check_data and not check_data['available']
region_unavailable(data) == data.available # "absent" /\ data.available = "false"

\* lines 163-172
CheckRegion ==
    /\ pc = "check_region"
    /\ requests' = Append(requests, "film")
    /\ \E resp \in CheckResponses :
          /\ check_data' = resp
          /\ CASE resp.kind = "neterr" -> Fail(Err("ConnectionError", ""))
               [] resp.kind = "notjson" -> Fail(Err("JSONDecodeError", ""))
               [] OTHER ->
                    IF region_unavailable(resp)
                    THEN Fail(Err("ValueError",
                                  "This film is not available in your region"))
                    ELSE pc' = "secure_url" /\ UNCHANGED error
    /\ UNCHANGED <<gui_capable, cred, auth_headers, headers, api_response,
                   manifest, cdm_response, decryption_key, invoked, files, pssh>>
    /\ UNCHANGED validate_vars
    /\ UNCHANGED pssh_vars
    /\ UNCHANGED supply_vars
    /\ UNCHANGED side_vars
    /\ UNCHANGED track_vars

\* the answer of GET .../viewing/secure_url: a status and a body that is
\* no JSON, or a JSON object with or without 'url' and 'errors'
ApiResponses ==
    {[kind |-> "neterr", status |-> 0, json |-> FALSE, url |-> FALSE,
      errors |-> FALSE]}
    \cup {[kind |-> "resp", status |-> st, json |-> FALSE, url |-> FALSE,
            errors |-> FALSE] : st \in {200, 422, 404}}
    \cup {[kind |-> "resp", status |-> st, json |-> TRUE, url |-> u,
            errors |-> e] : st \in {200, 422, 404}, u \in BOOLEAN, e \in BOOLEAN}

\* a plausible slip: the answer is never checked
secure_url_error_mut(resp) == None

\* lines 179-203: the error raised for an answer, None for none
secure_url_error(resp) ==
    IF resp.kind = "neterr" THEN Err("ConnectionError", "")
    ELSE IF ~resp.json THEN Err("JSONDecodeError", "")
    ELSE IF resp.status = 422
         THEN Err("ValueError", "Your session has expired. Please log in again.")
    ELSE IF resp.status # 200
         THEN [type |-> "ValueError", msg |-> "API returned", status |-> resp.status]
    ELSE IF ~resp.url /\ resp.errors THEN Err("ValueError", "API Error")
    ELSE IF ~resp.url
         THEN Err("ValueError", "No streaming URL found in response. Your session may have expired.")
    ELSE None

\* lines 174-203
GetSecureUrl ==
    /\ pc = "secure_url"
    /\ requests' = Append(requests, "secure_url")
    /\ \E resp \in ApiResponses :
          /\ api_response' = resp
          /\ IF secure_url_error(resp) # None
             THEN Fail(secure_url_error(resp))
             ELSE pc' = "manifest" /\ UNCHANGED error
    /\ UNCHANGED <<gui_capable, cred, auth_headers, headers, check_data,
                   manifest, cdm_response, decryption_key, invoked, files, pssh>>
    /\ UNCHANGED validate_vars
    /\ UNCHANGED pssh_vars
    /\ UNCHANGED supply_vars
    /\ UNCHANGED side_vars
    /\ UNCHANGED track_vars

\* What re.search(r'default_KID="([^"]+)"', text) finds in the manifest:
\* group(1), at least one character long, or nothing (the empty sequence)
NoMatch == <<>>

UuidKid == <<"1", "2", "3", "4", "5", "6", "7", "8", "-", "1", "2", "3", "4",
             "-", "1", "2", "3", "4", "-", "1", "2", "3", "4", "-", "1", "2",
             "3", "4", "5", "6", "7", "8", "9", "0", "1", "2">>

ManifestKids ==
    {NoMatch, UuidKid, BaseKid,
     <<"a", "b", "c", "d">>,
     <<"a", "b", "c">>,
     <<"a", "b", "-", "z", "z">>,
     BaseKid \o <<"a", "b">>}

ManifestDocs ==
    {[kind |-> "neterr", default_KID |-> NoMatch]}
    \cup {[kind |-> "doc", default_KID |-> k] : k \in ManifestKids}

\* a plausible slip: a manifest without the marker is let through
no_kid_match_mut(m) == FALSE

\* line 208: if not kid_match
no_kid_match(m) == m = NoMatch

\* lines 205-217
FetchManifest ==
    /\ pc = "manifest"
    /\ requests' = Append(requests, "manifest")
    /\ \E doc \in ManifestDocs :
          LET kid == remove_hyphens(doc.default_KID)
          IN  IF doc.kind = "neterr"
              THEN /\ Fail(Err("ConnectionError", ""))
                   /\ manifest' = doc
                   /\ UNCHANGED pssh
              ELSE IF no_kid_match(doc.default_KID)
              THEN /\ Fail(Err("ValueError", "Failed to extract encryption key ID"))
                   /\ manifest' = doc
                   /\ UNCHANGED pssh
              ELSE IF generate_pssh_raises(kid)
              THEN /\ Fail(Err("ValueError", "non-hexadecimal number found in fromhex()"))
                   /\ manifest' = doc
                   /\ UNCHANGED pssh
              ELSE IF headers["dt-custom-data"] = EmptyStr
              THEN /\ Fail(Err("ValueError", "Missing required dt-custom-data header"))
                   /\ manifest' = doc
                   /\ pssh' = generate_pssh(kid)
              ELSE /\ manifest' = doc
                   /\ pssh' = generate_pssh(kid)
                   /\ pc' = "key_exchange"
                   /\ UNCHANGED error
    /\ UNCHANGED <<gui_capable, cred, auth_headers, headers, check_data,
                   api_response, cdm_response, decryption_key, invoked, files>>
    /\ UNCHANGED validate_vars
    /\ UNCHANGED pssh_vars
    /\ UNCHANGED supply_vars
    /\ UNCHANGED side_vars
    /\ UNCHANGED track_vars

(***************************************************************************)
(* DownloadManager._fetch_decryption_key                                   *)
(***************************************************************************)
MaxKeys == 2

KeyDict(kid, key) == ("kid" :> kid) @@ ("key" :> key)

\* entries of the 'keys' array: two full pairs and one without 'key'
KeyEntries ==
    {KeyDict("abcd1234abcd1234", "efef5678efef5678"),
     KeyDict("1111222233334444", "5555666677778888"),
     ("kid" :> "abcd1234abcd1234")}

\* the body of the answer: free text with or without a hex16+:hex16+
\* substring, a JSON object without 'keys', a JSON object with 'keys'
CdmBodies ==
    {[shape |-> "text", pattern |-> <<>>, has_keys |-> FALSE, keys |-> <<>>],
     [shape |-> "text", pattern |-> <<"abcd1234abcd1234", ":", "efef5678efef5678">>,
      has_keys |-> FALSE, keys |-> <<>>],
     [shape |-> "json", pattern |-> <<>>, has_keys |-> FALSE, keys |-> <<>>]}
    \cup {[shape |-> "json", pattern |-> <<>>, has_keys |-> TRUE, keys |-> ks] :
            ks \in SeqsUpTo(KeyEntries, MaxKeys)}

CdmResponses ==
    {[kind |-> k, status |-> 0, body |-> [shape |-> "text", pattern |-> <<>>,
                                           has_keys |-> FALSE, keys |-> <<>>]] :
        k \in {"neterr", "timeout"}}
    \cup {[kind |-> "resp", status |-> st, body |-> b] :
            st \in {200, 500}, b \in CdmBodies}

\* lines 291-294: the entries that hold both 'kid' and 'key', in order, each
\* as f"{kid}:{key}"
RECURSIVE valid_keys(_)
valid_keys(ks) ==
    IF ks = <<>> THEN <<>>
    ELSE IF {"kid", "key"} \subseteq DOMAIN Head(ks)
         THEN <<(<<Head(ks)["kid"], ":", Head(ks)["key"]>>)>> \o valid_keys(Tail(ks))
         ELSE valid_keys(Tail(ks))

\* str.replace(':', ':key=')
replace_colon(s) == [i \in 1..Len(s) |-> IF s[i] = ":" THEN ":key=" ELSE s[i]]

\* line 299: f"key_id={keys[0].replace(':', ':key=')}"
format_key(k) == <<"key_id=">> \o replace_colon(k)

\* a plausible slip: the last full pair is taken
select_key_mut(keys) == keys[Len(keys)]

\* line 299: keys[0]
select_key(keys) == keys[1]

\* lines 252-299: the value returned inside the try, None when the try
\* raises (the call itself fails or runs into timeout=30, the status is not
\* 200, response.json() raises on a body that is no JSON, 'keys' is
\* missing, no entry is a full pair)
fetch_result(resp) ==
    IF resp.kind # "resp" THEN None
    ELSE IF resp.status # 200 THEN None
    ELSE IF resp.body.shape # "json" THEN None
    ELSE IF ~resp.body.has_keys THEN None
    ELSE IF valid_keys(resp.body.keys) = <<>> THEN None
    ELSE format_key(select_key(valid_keys(resp.body.keys)))

\* lines 252-297: the exception raised inside the try. The ValueError of
\* line 281 holds the status and the body text in its message, the decode
\* error of response.json() holds the text it was given (doc).
try_error(resp) ==
    IF resp.kind = "neterr" THEN Err("ConnectionError", "")
    ELSE IF resp.kind = "timeout" THEN Err("Timeout", "")
    ELSE IF resp.status # 200
         THEN [type |-> "ValueError", msg |-> "CDM Project API returned",
               status |-> resp.status, body |-> resp.body]
    ELSE IF resp.body.shape # "json"
         THEN [type |-> "JSONDecodeError", msg |-> "", body |-> resp.body]
    ELSE IF ~resp.body.has_keys
         THEN Err("ValueError", "No decryption keys found in response")
    ELSE IF valid_keys(resp.body.keys) = <<>>
         THEN Err("ValueError", "No valid key pairs found in response")
    ELSE None

\* lines 301-304: whatever the try raised is caught and a new ValueError
\* with a fixed message is raised in the handler; Python keeps the caught
\* exception as its __context__
fetch_error(resp) ==
    [type |-> "ValueError", msg |-> "Failed to obtain decryption key",
     context |-> try_error(resp)]

\* how the key service meets the POST of line 252
CdmServices == {"answers", "silent"}

\* a plausible slip: requests.post without timeout=, so that a silent
\* service leaves the call blocked
post_outcomes_mut(service) ==
    IF service = "answers" THEN CdmResponses ELSE {}

\* lines 252-275: what requests.post(..., timeout=30) can come back with. A
\* service that answers gives a response, breaks the connection or is too
\* slow; a service that never answers leaves only the timeout.
post_outcomes(service) ==
    IF service = "answers" THEN CdmResponses
    ELSE {r \in CdmResponses : r.kind = "timeout"}

\* lines 233-275: the request is built and sent; the call blocks
PostKeyRequest ==
    /\ pc = "key_exchange"
    /\ requests' = Append(requests, "cdm")
    /\ cdm_service' \in CdmServices
    /\ pc' = "key_wait"
    /\ UNCHANGED <<gui_capable, cred, auth_headers, headers, error, check_data,
                   api_response, manifest, cdm_response, decryption_key,
                   invoked, files, pssh, listing, log>>
    /\ UNCHANGED validate_vars
    /\ UNCHANGED pssh_vars
    /\ UNCHANGED supply_vars
    /\ UNCHANGED side_vars

\* lines 252-304, from the return of requests.post on. Every path through
\* the try returns or raises, and the handler of lines 301-304 raises
\* again, so lines 306-310 (the pattern search in response.text) are never
\* reached.
FetchDecryptionKey ==
    /\ pc = "key_wait"
    /\ \E resp \in post_outcomes(cdm_service) :
          /\ cdm_response' = resp
          /\ IF fetch_result(resp) = None
             THEN /\ Fail(fetch_error(resp))
                  /\ UNCHANGED decryption_key
             ELSE /\ decryption_key' = fetch_result(resp)
                  /\ pc' = "download"
                  /\ UNCHANGED error
    /\ UNCHANGED <<gui_capable, cred, auth_headers, headers, check_data,
                   api_response, manifest, invoked, files, pssh, requests>>
    /\ UNCHANGED validate_vars
    /\ UNCHANGED pssh_vars
    /\ UNCHANGED supply_vars
    /\ UNCHANGED side_vars
    /\ UNCHANGED track_vars

(***************************************************************************)
(* SpecValidate: _validate_token applied to every bounded input            *)
(***************************************************************************)
PipelineIdle ==
    /\ pc = "off"
    /\ gui_capable = FALSE
    /\ cred = None
    /\ auth_headers = None
    /\ headers = None
    /\ requests = <<>>
    /\ error = None
    /\ check_data = None
    /\ api_response = None
    /\ manifest = None
    /\ cdm_response = None
    /\ decryption_key = Unset
    /\ invoked = <<>>
    /\ files = {}
    /\ attempted = <<>>
    /\ errors = <<>>
    /\ interrupted = FALSE
    /\ cdm_service = "none"
    /\ listing = <<>>
    /\ log = <<>>

CookiesIdle ==
    /\ cookie_pc = "off"
    /\ browser_name = "chrome"
    /\ store = <<>>
    /\ browser_cookies = <<>>
    /\ cookie_headers = None
    /\ cookie_error = None

MergeIdle ==
    /\ merge_pc = "off"
    /\ media_files = <<>>
    /\ returncode = 0
    /\ mkvmerge_runs = 0
    /\ merge_result = "none"

MainIdle ==
    /\ main_pc = "off"
    /\ user_country = ""
    /\ movie_info = None
    /\ download_calls = 0
    /\ exit_code = -1
    /\ report = "none"

SqliteIdle ==
    /\ sq_pc = "off"
    /\ os_name = "posix"
    /\ db_exists = FALSE
    /\ attempt = 0
    /\ conn_open = FALSE
    /\ temp_files = {}
    /\ sq_errors = <<>>
    /\ sq_result = "none"

\* the variables of the other specifications at rest
SideIdle == CookiesIdle /\ MergeIdle /\ MainIdle /\ SqliteIdle

PsshIdle ==
    /\ key_id = <<>>
    /\ key_id2 = <<>>
    /\ pssh = Unset
    /\ pssh2 = Unset

ValidateIdle ==
    /\ auth_token = <<>>
    /\ dt_custom_data = EmptyStr
    /\ entry = "none"
    /\ validated = None

InitValidate ==
    /\ auth_token \in Tokens
    /\ dt_custom_data \in CustomDatas
    /\ entry = "none"
    /\ validated = None
    /\ PsshIdle
    /\ PipelineIdle
    /\ SideIdle

\* _extract_auth_from_cookies line 609: the cookie values go to
\* _validate_token as they are
ValidateDirect ==
    /\ entry = "none"
    /\ entry' = "direct"
    /\ validated' = validate_token(auth_token, dt_custom_data)
    /\ UNCHANGED <<auth_token, dt_custom_data, key_id, key_id2, pssh, pssh2>>
    /\ UNCHANGED pipeline_vars
    /\ UNCHANGED side_vars

\* _prompt_authentication_method choice "2": the typed values
ValidateManual ==
    /\ entry = "none"
    /\ entry' = "manual"
    /\ validated' = manual_entry(auth_token, dt_custom_data)
    /\ UNCHANGED <<auth_token, dt_custom_data, key_id, key_id2, pssh, pssh2>>
    /\ UNCHANGED pipeline_vars
    /\ UNCHANGED side_vars

NextValidate == ValidateDirect \/ ValidateManual

SpecValidate == InitValidate /\ [][NextValidate]_vars

\* The session context a credential string stands for, and whether it is
\* an object holding the three required fields (spec, section 3)
SessionContext(d) ==
    IF d.form \in {"b64", "b64_compact", "raw"} THEN d.json ELSE NoJson

ContainsRequired(j) == j.kind = "object" /\ required_fields \subseteq j.members

\* C2: _validate_token answers valid=False whenever the decoded session
\* context lacks userId, sessionId or merchant, and valid=True whenever both
\* inputs are non-empty and the context holds all three, be the context
\* given as base64 of JSON or as raw JSON; for raw JSON the returned
\* dt-custom-data header is the base64 encoding of that JSON.
Thm_C2_ValidateToken ==
    entry = "direct" =>
        /\ ~ContainsRequired(SessionContext(dt_custom_data))
              => validated = Invalid
        /\ (auth_token # <<>> /\ ContainsRequired(SessionContext(dt_custom_data)))
              => /\ validated.valid
                 /\ validated.headers["dt-custom-data"] =
                        IF dt_custom_data.form = "raw"
                        THEN [form |-> "b64", json |-> dt_custom_data.json]
                        ELSE dt_custom_data

\* C2 witness: a raw-JSON context with all three fields was validated and
\* came back re-encoded
Wit_C2_RawAccepted ==
    /\ entry = "direct"
    /\ dt_custom_data.form = "raw"
    /\ ContainsRequired(dt_custom_data.json)
    /\ validated.valid
    /\ validated.headers["dt-custom-data"].form = "b64"

\* The bare token of an input: the input without surrounding blanks and
\* without one leading 'Bearer ' written in any letter case
BareToken(t) ==
    LET s == strip(t)
    IN  IF startswith_bearer_sp(s) THEN Drop(s, 2) ELSE s

\* C3: for every accepted bearer-token input, typed at the manual prompt or
\* not, the Authorization header is 'Bearer ' followed by the bare token.
Cex_C3_BearerNormalized ==
    (entry \in {"direct", "manual"} /\ validated.valid)
        => validated.headers["Authorization"] = bearer_of(BareToken(auth_token))

(***************************************************************************)
(* SpecPssh: _generate_pssh applied to pairs of valid key ids              *)
(***************************************************************************)
NumAltDigits == 2

AltDigits == <<"a", "f", "0", "9", "c">>

\* valid key ids: 32 lowercase hex digits, the base one and every one that
\* differs from it in one digit
ValidKids ==
    {BaseKid} \cup
    {[BaseKid EXCEPT ![p] = AltDigits[d]] :
        p \in 1..Len(BaseKid), d \in 1..NumAltDigits}

InitPssh ==
    /\ key_id \in ValidKids
    /\ key_id2 \in ValidKids
    /\ pssh = Unset
    /\ pssh2 = Unset
    /\ ValidateIdle
    /\ PipelineIdle
    /\ SideIdle

GeneratePssh ==
    /\ pssh = Unset
    /\ ~generate_pssh_raises(key_id)
    /\ ~generate_pssh_raises(key_id2)
    /\ pssh' = generate_pssh(key_id)
    /\ pssh2' = generate_pssh(key_id2)
    /\ UNCHANGED <<key_id, key_id2>>
    /\ UNCHANGED validate_vars
    /\ UNCHANGED pipeline_vars
    /\ UNCHANGED side_vars

NextPssh == GeneratePssh

SpecPssh == InitPssh /\ [][NextPssh]_vars

\* base64 decoding of a well-formed text: four sextets give three bytes,
\* less one byte per '='
b64decode(t) ==
    LET n == Len(t)
        pads == Cardinality({i \in 1..n : t[i] = Pad})
        sx(i) == IF t[i] = Pad THEN 0 ELSE t[i]
        word(g) == sx(4 * g + 1) * 262144 + sx(4 * g + 2) * 4096
                   + sx(4 * g + 3) * 64 + sx(4 * g + 4)
    IN  [i \in 1..(3 * (n \div 4) - pads) |->
            LET g == (i - 1) \div 3
                j == (i - 1) % 3
            IN  CASE j = 0 -> word(g) \div 65536
                  [] j = 1 -> (word(g) \div 256) % 256
                  [] j = 2 -> word(g) % 256]

BigEndian32(b) == b[1] * 16777216 + b[2] * 65536 + b[3] * 256 + b[4]

\* the documented box: length, 'pssh', version and flags, system id, data
\* size, key id
DocumentedLayout(b, k) ==
    /\ Len(b) = 48
    /\ BigEndian32(SubSeq(b, 1, 4)) = 48
    /\ SubSeq(b, 5, 8) = <<112, 115, 115, 104>>
    /\ SubSeq(b, 13, 28) = fromhex(SystemIdHex)
    /\ BigEndian32(SubSeq(b, 29, 32)) = 16
    /\ SubSeq(b, 33, 48) = fromhex(k)

\* C5: for every valid key id the blob decodes from base64 to exactly 48
\* bytes: length field, 'pssh' tag, version/flags, the system identifier
\* at its documented offset, data-size field and the 16 key-id bytes.
Cex_C5_BlobLayout ==
    pssh # Unset => DocumentedLayout(b64decode(pssh), key_id)

\* C6: the blob builder is injective over valid key ids, and equal key
\* ids give byte-identical blobs.
Thm_C6_BlobInjective ==
    pssh # Unset => ((key_id = key_id2) <=> (pssh = pssh2))

\* C6 witness: two key ids that differ only in their last digit got
\* different blobs
Wit_C6_DistinctBlobs ==
    /\ pssh # Unset
    /\ key_id # key_id2
    /\ SubSeq(key_id, 1, 31) = SubSeq(key_id2, 1, 31)
    /\ pssh # pssh2

(***************************************************************************)
(* DownloadManager.download_and_decrypt after the key is known             *)
(***************************************************************************)
Langs == {"en", "fr", "de"}
SubLangs == {"en"}

VideoSrc == [kind |-> "video_src", lang |-> ""]
VideoOut == [kind |-> "video_out", lang |-> ""]
AudioSrc(l) == [kind |-> "audio_src", lang |-> l]
AudioOut(l) == [kind |-> "audio_out", lang |-> l]
SubSrc(l) == [kind |-> "srt_src", lang |-> l]
SubOut(l) == [kind |-> "srt_out", lang |-> l]

\* a plausible slip: the downloaded file is not looked for
download_missing_mut(fs) == FALSE

\* line 379: not os.path.exists(input_file)
download_missing(fs) == VideoSrc \notin fs

\* lines 366-381: N_m3u8DL-RE is run, then {download_folder}/{full_title}.mp4
\* must exist
Download ==
    /\ pc = "download"
    /\ invoked' = Append(invoked, "N_m3u8DL-RE")
    /\ \E video \in BOOLEAN, audio \in SUBSET Langs, subs \in SUBSET SubLangs :
          /\ files' = (IF video THEN {VideoSrc} ELSE {})
                       \cup {AudioSrc(l) : l \in audio}
                       \cup {SubSrc(l) : l \in subs}
          /\ IF download_missing(files')
             THEN Fail(Err("FileNotFoundError", "Downloaded file not found"))
             ELSE pc' = "decrypt_video" /\ UNCHANGED error
    \* _get_encryption_info has returned (line 363): of all it worked with
    \* only decryption_key and secure_url are left, its locals and those of
    \* the methods it called are gone
    /\ cred' = None
    /\ auth_headers' = None
    /\ headers' = None
    /\ check_data' = None
    /\ api_response' = None
    /\ manifest' = None
    /\ cdm_response' = None
    /\ pssh' = Unset
    /\ UNCHANGED <<gui_capable, requests, decryption_key>>
    /\ UNCHANGED validate_vars
    /\ UNCHANGED pssh_vars
    /\ UNCHANGED supply_vars
    /\ UNCHANGED side_vars
    /\ UNCHANGED track_vars

\* a plausible slip: the decrypted video is not looked for
video_missing_mut(fs) == FALSE

\* line 390: not os.path.exists(output_file)
video_missing(fs) == VideoOut \notin fs

\* lines 383-394: shaka-packager on the video, then decrypted-video.mp4 must
\* exist
DecryptVideo ==
    /\ pc = "decrypt_video"
    /\ invoked' = Append(invoked, "shaka-packager video")
    /\ \E ok \in BOOLEAN :
          /\ files' = IF ok THEN files \cup {VideoOut} ELSE files
          /\ IF video_missing(files')
             THEN Fail(Err("FileNotFoundError",
                           "Decryption failed - output file not found"))
             ELSE pc' = "process_files" /\ UNCHANGED error
    /\ UNCHANGED <<gui_capable, cred, auth_headers, headers, requests,
                   check_data, api_response, manifest, cdm_response,
                   decryption_key, pssh>>
    /\ UNCHANGED validate_vars
    /\ UNCHANGED pssh_vars
    /\ UNCHANGED supply_vars
    /\ UNCHANGED side_vars
    /\ UNCHANGED track_vars

(***************************************************************************)
(* DownloadManager._process_additional_files                               *)
(***************************************************************************)
\* the files of the download folder: what the downloader left there
in_download_folder(fs) ==
    {f \in fs : f.kind \in {"video_src", "audio_src", "srt_src"}}

\* os.listdir returns the names in arbitrary order
Orders(S) ==
    {q \in [1..Cardinality(S) -> S] :
        \A i, j \in 1..Cardinality(S) : i # j => q[i] # q[j]}

\* one logger.error record of the loop
LogEntry(msg, l) == [msg |-> msg, lang |-> l]

\* line 422: os.listdir(self.download_folder); an OSError of the call leaves
\* download_and_decrypt through lines 401-403
ListDownloadFolder ==
    /\ pc = "process_files"
    /\ \/ /\ listing' \in Orders(in_download_folder(files))
          /\ pc' = "walk_files"
          /\ UNCHANGED error
       \/ /\ Fail(Err("OSError", "listdir"))
          /\ UNCHANGED listing
    /\ UNCHANGED <<gui_capable, cred, auth_headers, headers, requests,
                   check_data, api_response, manifest, cdm_response,
                   decryption_key, invoked, files, pssh, cdm_service, log>>
    /\ UNCHANGED validate_vars
    /\ UNCHANGED pssh_vars
    /\ UNCHANGED supply_vars
    /\ UNCHANGED side_vars

\* a plausible slip (the older script does this): the source is removed
\* whether or not the output is there
remove_source_mut(out, fs) == TRUE

\* line 452: os.path.exists(output_path)
remove_source(out, fs) == out \in fs

\* lines 425-434: a subtitle file is moved; a failure of the move is logged
MoveSubtitle(f) ==
    /\ UNCHANGED invoked
    /\ \/ /\ files' = (files \ {f}) \cup {SubOut(f.lang)}
          /\ UNCHANGED log
       \/ /\ log' = Append(log, LogEntry("Failed to move subtitle file", f.lang))
          /\ UNCHANGED files

\* lines 436-458: shaka-packager on an audio file; the source is removed when
\* the output exists, else the failure is logged
DecryptAudio(f) ==
    /\ invoked' = Append(invoked, "shaka-packager audio " \o f.lang)
    /\ \E ok \in BOOLEAN :
          LET after == IF ok THEN files \cup {AudioOut(f.lang)} ELSE files
          IN  IF remove_source(AudioOut(f.lang), after)
              THEN /\ files' = after \ {f}
                   /\ UNCHANGED log
              ELSE /\ files' = after
                   /\ log' = Append(log, LogEntry("Failed to decrypt audio track",
                                                  f.lang))

\* a plausible slip: the loop is left after its first round
remaining_mut(ls) == <<>>

\* line 422: the for loop goes on with the next name
remaining(ls) == Tail(ls)

\* lines 422-458: one round of the loop over the listing
ProcessFile ==
    /\ pc = "walk_files"
    /\ listing # <<>>
    /\ listing' = remaining(listing)
    /\ LET f == Head(listing)
       IN  CASE f.kind = "srt_src" -> MoveSubtitle(f)
             [] f.kind = "audio_src" -> DecryptAudio(f)
             [] OTHER -> UNCHANGED <<invoked, files, log>>
    /\ UNCHANGED <<pc, gui_capable, cred, auth_headers, headers, requests, error,
                   check_data, api_response, manifest, cdm_response,
                   decryption_key, pssh, cdm_service>>
    /\ UNCHANGED validate_vars
    /\ UNCHANGED pssh_vars
    /\ UNCHANGED supply_vars
    /\ UNCHANGED side_vars

\* lines 460-466, then lines 399-400: the source video is removed and
\* download_and_decrypt returns
Cleanup ==
    /\ pc = "walk_files"
    /\ listing = <<>>
    /\ files' = files \ {VideoSrc}
    /\ pc' = "complete"
    /\ UNCHANGED <<gui_capable, cred, auth_headers, headers, requests, error,
                   check_data, api_response, manifest, cdm_response,
                   decryption_key, invoked, pssh>>
    /\ UNCHANGED validate_vars
    /\ UNCHANGED pssh_vars
    /\ UNCHANGED supply_vars
    /\ UNCHANGED side_vars
    /\ UNCHANGED track_vars

(***************************************************************************)
(* Spec: one run of download_and_decrypt                                   *)
(***************************************************************************)
Init ==
    /\ pc = "generate_headers"
    /\ gui_capable \in BOOLEAN
    /\ cred = None
    /\ auth_headers = None
    /\ headers = None
    /\ requests = <<>>
    /\ error = None
    /\ check_data = None
    /\ api_response = None
    /\ manifest = None
    /\ cdm_response = None
    /\ decryption_key = Unset
    /\ invoked = <<>>
    /\ files = {}
    /\ cdm_service = "none"
    /\ listing = <<>>
    /\ log = <<>>
    /\ attempted = <<>>
    /\ errors = <<>>
    /\ interrupted = FALSE
    /\ ValidateIdle
    /\ PsshIdle
    /\ SideIdle

Next ==
    \/ BrowserCookies
    \/ ActiveSession
    \/ Prompt
    \/ PrepareHeaders
    \/ CheckRegion
    \/ GetSecureUrl
    \/ FetchManifest
    \/ PostKeyRequest
    \/ FetchDecryptionKey
    \/ Download
    \/ DecryptVideo
    \/ ListDownloadFolder
    \/ ProcessFile
    \/ Cleanup

Spec == Init /\ [][Next]_vars

\* The blocked requests.post returns or raises once the transport has an
\* outcome for it, and a loop that is not blocked takes its next round.
SpecLive ==
    /\ Init
    /\ [][Next]_vars
    /\ WF_pc(FetchDecryptionKey)
    /\ WF_listing(ProcessFile)
    /\ WF_pc(Cleanup)

(***************************************************************************)
(* SpecCookies: AuthManager.get_browser_cookies and the cookie strategy    *)
(* of generate_headers on every bounded cookie store                       *)
(***************************************************************************)
\* the keys of the browser_cookie3 table (lines 435-439) and of the path
\* tables of EnvironmentDetector.get_browser_cookie_paths
SupportedBrowsers == {"chrome", "firefox", "edge"}

\* the names an AuthManager is built with
BrowserNames == SupportedBrowsers \cup {"unsupported_browser"}

\* lines 402-450: the cookies of the browser's store; a name that is in no
\* table has no cookie path (get_browser_cookie_paths answers []) and no
\* browser_cookie3 function (line 439 answers None), so nothing is read
read_store(name, st) == IF name \in SupportedBrowsers THEN st ELSE <<>>

InitCookies ==
    /\ cookie_pc = "get_browser_cookies"
    /\ browser_name \in BrowserNames
    /\ store \in CookieLists
    /\ browser_name \notin SupportedBrowsers => store = <<>>
    /\ browser_cookies = <<>>
    /\ cookie_headers = None
    /\ cookie_error = None
    /\ MergeIdle
    /\ MainIdle
    /\ SqliteIdle
    /\ ValidateIdle
    /\ PsshIdle
    /\ PipelineIdle

\* get_browser_cookies, lines 402-456
GetBrowserCookies ==
    /\ cookie_pc = "get_browser_cookies"
    /\ IF read_store(browser_name, store) = <<>>
       THEN /\ cookie_error' = Err("Exception", "No cookies found")
            /\ cookie_pc' = "raised"
            /\ UNCHANGED browser_cookies
       ELSE /\ browser_cookies' = read_store(browser_name, store)
            /\ cookie_pc' = "extract"
            /\ UNCHANGED cookie_error
    /\ UNCHANGED <<browser_name, store, cookie_headers>>
    /\ UNCHANGED <<validate_vars, pssh, pssh_vars, pipeline_vars>>
    /\ UNCHANGED <<merge_vars, main_vars, sqlite_vars>>

\* generate_headers lines 703-708: the headers of the cookies are returned,
\* or the next strategy is entered
ExtractAuthFromCookies ==
    /\ cookie_pc = "extract"
    /\ cookie_headers' = extract_auth_from_cookies(browser_cookies)
    /\ cookie_pc' = IF Truthy(cookie_headers') THEN "returned" ELSE "escalate"
    /\ UNCHANGED <<browser_name, store, browser_cookies, cookie_error>>
    /\ UNCHANGED <<validate_vars, pssh, pssh_vars, pipeline_vars>>
    /\ UNCHANGED <<merge_vars, main_vars, sqlite_vars>>

NextCookies == GetBrowserCookies \/ ExtractAuthFromCookies

SpecCookies == InitCookies /\ [][NextCookies]_vars

(***************************************************************************)
(* SpecMerge: MkvMerger.merge_to_mkv on every bounded list of media files  *)
(***************************************************************************)
\* the longest list of media files
MaxMedia == 3

\* MediaFile.type
MediaTypes == {"video", "audio", "subtitle"}

\* the exit codes of mkvmerge: 0 success, 1 warnings, 2 error
ReturnCodes == {0, 1, 2}

\* no exit code: subprocess.run raised before the process ended
NoReturnCode == -1

MediaLists == SeqsUpTo([type : MediaTypes], MaxMedia)

\* a plausible slip: the video entry is not asked for
no_video_mut(fs) == FALSE

\* lines 119-121: next((f for f in media_files if f.type == 'video'), None)
\* is None
no_video(fs) == \A i \in 1..Len(fs) : fs[i].type # "video"

InitMerge ==
    /\ merge_pc = "merge_to_mkv"
    /\ media_files \in MediaLists
    /\ returncode = NoReturnCode
    /\ mkvmerge_runs = 0
    /\ merge_result = "none"
    /\ CookiesIdle
    /\ MainIdle
    /\ SqliteIdle
    /\ ValidateIdle
    /\ PsshIdle
    /\ PipelineIdle

\* lines 118-149: the ValueError of line 121 is logged and raised again
\* (lines 158-160); otherwise the command is built
BuildCommand ==
    /\ merge_pc = "merge_to_mkv"
    /\ IF no_video(media_files)
       THEN /\ merge_result' = "ValueError: No video file found"
            /\ merge_pc' = "raised"
       ELSE /\ merge_pc' = "subprocess_run"
            /\ UNCHANGED merge_result
    /\ UNCHANGED <<media_files, returncode, mkvmerge_runs>>
    /\ UNCHANGED <<validate_vars, pssh, pssh_vars, pipeline_vars>>
    /\ UNCHANGED <<cookie_vars, main_vars, sqlite_vars>>

\* lines 151-164: subprocess.run(cmd) ends with an exit code, or raises (no
\* mkvmerge on the PATH) and the handler of line 161 returns False
RunMkvmerge ==
    /\ merge_pc = "subprocess_run"
    /\ mkvmerge_runs' = mkvmerge_runs + 1
    /\ \/ \E rc \in ReturnCodes :
             /\ returncode' = rc
             /\ merge_result' = IF rc # 0 THEN "False" ELSE "True"
       \/ /\ returncode' = NoReturnCode
          /\ merge_result' = "False"
    /\ merge_pc' = "returned"
    /\ UNCHANGED media_files
    /\ UNCHANGED <<validate_vars, pssh, pssh_vars, pipeline_vars>>
    /\ UNCHANGED <<cookie_vars, main_vars, sqlite_vars>>

NextMerge == BuildCommand \/ RunMkvmerge

SpecMerge == InitMerge /\ [][NextMerge]_vars

(***************************************************************************)
(* SpecMain: main() of __main__.py, one step per blocking call             *)
(***************************************************************************)
\* what get_user_location answers: a country code in lower case
UserCountries == {"us", "fr", "de"}

\* the entries of the 'film-showing' paragraph, as the site writes them
CountryTexts == {"us", "US", "fr", "de"}

\* search_movie (lines 53-122): a MovieInfo parsed from the first result,
\* or the manual entry, whose available_countries is []; it never answers
\* None
MovieInfos ==
    {[available_countries |-> a, manual |-> FALSE] : a \in SUBSET CountryTexts}
    \cup {[available_countries |-> {}, manual |-> TRUE]}

\* a plausible slip: a film entered by hand is taken as available
available_mut(country, info) ==
    info.manual \/ country \in info.available_countries

\* line 132: user_country in movie_info.available_countries
available(country, info) == country \in info.available_countries

\* lines 146-148: KeyboardInterrupt at an input() or inside a call
Cancelled ==
    /\ main_pc' = "exit"
    /\ exit_code' = 1
    /\ report' = "Operation cancelled by user"

InitMain ==
    /\ main_pc = "get_user_location"
    /\ user_country = ""
    /\ movie_info = None
    /\ download_calls = 0
    /\ exit_code = -1
    /\ report = "none"
    /\ CookiesIdle
    /\ MergeIdle
    /\ SqliteIdle
    /\ ValidateIdle
    /\ PsshIdle
    /\ PipelineIdle

\* line 119
GetUserLocation ==
    /\ main_pc = "get_user_location"
    /\ \/ /\ user_country' \in UserCountries
          /\ main_pc' = "search_movie"
          /\ UNCHANGED <<exit_code, report>>
       \/ /\ Cancelled
          /\ UNCHANGED user_country
    /\ UNCHANGED <<movie_info, download_calls>>
    /\ UNCHANGED <<validate_vars, pssh, pssh_vars, pipeline_vars>>
    /\ UNCHANGED <<cookie_vars, merge_vars, sqlite_vars>>

\* lines 122-127
SearchMovie ==
    /\ main_pc = "search_movie"
    /\ \/ /\ movie_info' \in MovieInfos
          /\ main_pc' = "check_availability"
          /\ UNCHANGED <<exit_code, report>>
       \/ /\ Cancelled
          /\ UNCHANGED movie_info
    /\ UNCHANGED <<user_country, download_calls>>
    /\ UNCHANGED <<validate_vars, pssh, pssh_vars, pipeline_vars>>
    /\ UNCHANGED <<cookie_vars, merge_vars, sqlite_vars>>

\* lines 132-139
CheckAvailability ==
    /\ main_pc = "check_availability"
    /\ IF available(user_country, movie_info)
       THEN \/ /\ main_pc' = "download_and_decrypt"
               /\ UNCHANGED <<exit_code, report>>
            \/ Cancelled
       ELSE /\ main_pc' = "exit"
            /\ exit_code' = 1
            /\ report' = "Movie is not available"
    /\ UNCHANGED <<user_country, movie_info, download_calls>>
    /\ UNCHANGED <<validate_vars, pssh, pssh_vars, pipeline_vars>>
    /\ UNCHANGED <<cookie_vars, merge_vars, sqlite_vars>>

\* lines 142-153: the call returns, raises an Exception, or raises
\* KeyboardInterrupt
DownloadAndDecrypt ==
    /\ main_pc = "download_and_decrypt"
    /\ download_calls' = download_calls + 1
    /\ main_pc' = "exit"
    /\ \/ /\ exit_code' = 0
          /\ report' = "Download and decryption completed successfully"
       \/ /\ exit_code' = 1
          /\ report' = "An error occurred"
       \/ /\ exit_code' = 1
          /\ report' = "Operation cancelled by user"
    /\ UNCHANGED <<user_country, movie_info>>
    /\ UNCHANGED <<validate_vars, pssh, pssh_vars, pipeline_vars>>
    /\ UNCHANGED <<cookie_vars, merge_vars, sqlite_vars>>

NextMain ==
    \/ GetUserLocation
    \/ SearchMovie
    \/ CheckAvailability
    \/ DownloadAndDecrypt

SpecMain == InitMain /\ [][NextMain]_vars

(***************************************************************************)
(* SpecSqlite: AuthManager._read_locked_sqlite, one step per round of the  *)
(* retry loop                                                              *)
(***************************************************************************)
\* line 117: the default of max_retries, which every caller uses
max_retries == 3

\* os.name: on 'nt' a file that a connection holds open cannot be removed
OsNames == {"posix", "nt"}

\* what one round meets:
\*   copy_fails     shutil.copy2 raises (line 140), nothing is written
\*   connect_fails  sqlite3.connect raises (line 143) on the copy
\*   no_table       the copy has no table 'cookies': line 170 returns []
\*                  and leaves the connection open
\*   read_error     a query raises: lines 249-256 close and return []
\*   no_cookies     no row has a value: line 242 closes, [] is returned
\*   cookies        rows with values: line 242 closes, the list is returned
AttemptOutcomes ==
    {"copy_fails", "connect_fails", "no_table", "read_error", "no_cookies",
     "cookies"}

\* the copy of this round is on disk when the finally clause runs
copy_written(outcome) == outcome # "copy_fails"

\* the connection of this round is open when the finally clause runs
left_open(outcome) == outcome = "no_table"

\* lines 150-155: os.remove raises on a file held open where the system
\* locks open files; the bare except swallows it
remove_fails(os, open) == os = "nt" /\ open

\* line 149: str(e) of the exception of this round
error_text(outcome) ==
    IF outcome = "copy_fails" THEN "copy2 failed" ELSE "connect failed"

InitSqlite ==
    /\ sq_pc = "check_exists"
    /\ os_name \in OsNames
    /\ db_exists \in BOOLEAN
    /\ attempt = 0
    /\ conn_open = FALSE
    /\ temp_files = {}
    /\ sq_errors = <<>>
    /\ sq_result = "none"
    /\ CookiesIdle
    /\ MergeIdle
    /\ MainIdle
    /\ ValidateIdle
    /\ PsshIdle
    /\ PipelineIdle

\* lines 121-129
CheckExists ==
    /\ sq_pc = "check_exists"
    /\ IF db_exists
       THEN /\ sq_pc' = "attempt"
            /\ UNCHANGED sq_result
       ELSE /\ sq_pc' = "returned"
            /\ sq_result' = "[]"
    /\ UNCHANGED <<os_name, db_exists, attempt, conn_open, temp_files, sq_errors>>
    /\ UNCHANGED <<validate_vars, pssh, pssh_vars, pipeline_vars>>
    /\ UNCHANGED <<cookie_vars, merge_vars, main_vars>>

\* lines 128-155: one round of the loop with its except and finally
\* clauses; `return cookies` (line 146) leaves through the finally clause
Attempt ==
    /\ sq_pc = "attempt"
    /\ attempt < max_retries
    /\ \E outcome \in AttemptOutcomes :
          /\ sq_errors' = IF outcome \in {"copy_fails", "connect_fails"}
                          THEN Append(sq_errors, error_text(outcome))
                          ELSE sq_errors
          /\ temp_files' = IF copy_written(outcome)
                              /\ remove_fails(os_name, left_open(outcome))
                           THEN temp_files \cup {attempt}
                           ELSE temp_files
          /\ IF outcome = "cookies"
             THEN /\ sq_pc' = "returned"
                  /\ sq_result' = "cookies"
                  /\ conn_open' = FALSE
             ELSE /\ conn_open' = left_open(outcome)
                  /\ UNCHANGED <<sq_pc, sq_result>>
    /\ attempt' = attempt + 1
    /\ UNCHANGED <<os_name, db_exists>>
    /\ UNCHANGED <<validate_vars, pssh, pssh_vars, pipeline_vars>>
    /\ UNCHANGED <<cookie_vars, merge_vars, main_vars>>

\* lines 157-159: the loop is over, the frame and its connection go
RaiseAfterRetries ==
    /\ sq_pc = "attempt"
    /\ attempt = max_retries
    /\ sq_pc' = "raised"
    /\ sq_result' = "Exception: Failed to read database after 3 attempts"
    /\ conn_open' = FALSE
    /\ UNCHANGED <<os_name, db_exists, attempt, temp_files, sq_errors>>
    /\ UNCHANGED <<validate_vars, pssh, pssh_vars, pipeline_vars>>
    /\ UNCHANGED <<cookie_vars, merge_vars, main_vars>>

NextSqlite == CheckExists \/ Attempt \/ RaiseAfterRetries

SpecSqlite == InitSqlite /\ [][NextSqlite]_vars

(***************************************************************************)
(* Properties of one run                                                   *)
(***************************************************************************)
\* A credential set is valid iff both fields are non-empty and the session
\* context decodes to an object with the three required fields
ValidCredential(c) ==
    /\ c.bearerToken # <<>>
    /\ c.sessionContext # EmptyStr
    /\ ContainsRequired(SessionContext(c.sessionContext))

\* C1: a header set returned by generate_headers, through any strategy, was
\* built from a valid credential set.
Cex_C1_HeadersFromValidCredential ==
    auth_headers # None => ValidCredential(cred)

\* the key id after removing hyphens is 32 hexadecimal characters
ValidKid(raw) ==
    LET k == remove_hyphens(raw)
    IN  Len(k) = 32 /\ \A i \in 1..Len(k) : IsHex(k[i])

\* C4: a default_KID whose length without hyphens is not exactly 32
\* hexadecimal characters makes the run fail; no blob is built and no
\* key-exchange request is sent for it.
Cex_C4_InvalidKidRejected ==
    (manifest # None /\ manifest.kind = "doc"
     /\ manifest.default_KID # NoMatch /\ ~ValidKid(manifest.default_KID))
        => (pc = "failed" /\ pssh = Unset /\ \A i \in 1..Len(requests) : requests[i] # "cdm")

\* C7: once the catalog reports the title unavailable in the region the run
\* has failed with the region error, and the only request ever issued is
\* the availability check itself.
Thm_C7_RegionHalts ==
    (check_data # None /\ check_data.kind = "json" /\ check_data.available = "false")
        => /\ pc = "failed"
           /\ error = Err("ValueError", "This film is not available in your region")
           /\ requests = <<"film">>
           /\ invoked = <<>>

\* C7 witness: the availability field said no and the run stopped there
Wit_C7_RegionRestricted ==
    /\ check_data # None
    /\ check_data.available = "false"
    /\ pc = "failed"
    /\ requests = <<"film">>

\* C8: a 422 from the secure-URL endpoint, whatever its body, ends in the
\* session-expired error.
Cex_C8_SessionExpired ==
    (api_response # None /\ api_response.kind = "resp" /\ api_response.status = 422)
        => /\ pc = "failed"
           /\ error = Err("ValueError",
                          "Your session has expired. Please log in again.")

\* C9: a manifest without a default-KID marker makes the run fail with the
\* extraction error; no blob is built, no key-exchange request is sent and
\* the segment downloader is never invoked.
Thm_C9_MissingKidFails ==
    (manifest # None /\ manifest.kind = "doc" /\ manifest.default_KID = NoMatch)
        => /\ pc = "failed"
           /\ error = Err("ValueError", "Failed to extract encryption key ID")
           /\ pssh = Unset
           /\ requests = <<"film", "secure_url", "manifest">>
           /\ invoked = <<>>
           /\ decryption_key = Unset

\* C9 witness: the manifest was fetched, held no marker, and the run failed
Wit_C9_NoMarker ==
    /\ requests = <<"film", "secure_url", "manifest">>
    /\ manifest # None
    /\ manifest.kind = "doc"
    /\ manifest.default_KID = NoMatch
    /\ error = Err("ValueError", "Failed to extract encryption key ID")

\* C10: a 200 answer whose body is free text holding one hex16+:hex16+
\* substring yields that pair as the formatted key.
Cex_C10_PatternFallback ==
    (cdm_response # None /\ cdm_response.kind = "resp" /\ cdm_response.status = 200
     /\ cdm_response.body.shape = "text" /\ cdm_response.body.pattern # <<>>)
        => /\ decryption_key # Unset
           /\ decryption_key = format_key(cdm_response.body.pattern)

(***************************************************************************)
(* Properties of the key exchange                                          *)
(***************************************************************************)
\* the kind of an error: the type and the message of the exception raised,
\* and the type of the exception it was raised from
Kind(e) ==
    [type |-> e.type, msg |-> e.msg,
     cause |-> IF "context" \in DOMAIN e THEN e.context.type ELSE "none"]

\* a 200 answer with the body {"keys": []}
EmptyKeys(resp) ==
    /\ resp.kind = "resp"
    /\ resp.status = 200
    /\ resp.body.shape = "json"
    /\ resp.body.has_keys
    /\ resp.body.keys = <<>>

\* an answer with a status other than 200
HttpFailure(resp) == resp.kind = "resp" /\ resp.status # 200

\* C11: the body {"keys": []} makes the key exchange fail without a key, and
\* the kind of the error differs from the kind of the error raised for
\* every HTTP failure of the call.
Cex_C11_NoKeyPairsKind ==
    (cdm_response # None /\ EmptyKeys(cdm_response))
        => /\ pc = "failed"
           /\ decryption_key = Unset
           /\ \A r \in CdmResponses :
                 HttpFailure(r) => Kind(error) # Kind(fetch_error(r))

\* every entry of the 'keys' array holds both 'kid' and 'key'
AllPairs(ks) == \A i \in 1..Len(ks) : {"kid", "key"} \subseteq DOMAIN ks[i]

\* C12: for a non-empty list of key pairs the key handed on is exactly
\* key_id=<kid>:key=<key> of the first pair of the response, whatever
\* follows it.
Thm_C12_FirstPair ==
    (/\ cdm_response # None
     /\ cdm_response.kind = "resp"
     /\ cdm_response.status = 200
     /\ cdm_response.body.shape = "json"
     /\ cdm_response.body.has_keys
     /\ cdm_response.body.keys # <<>>
     /\ AllPairs(cdm_response.body.keys))
        => /\ pc = "download"
           /\ decryption_key = <<"key_id=", cdm_response.body.keys[1]["kid"],
                                 ":key=", cdm_response.body.keys[1]["key"]>>

\* C12 witness: two different pairs came back and a key was handed on
Wit_C12_TwoPairs ==
    /\ pc = "download"
    /\ cdm_response # None
    /\ Len(cdm_response.body.keys) = 2
    /\ AllPairs(cdm_response.body.keys)
    /\ cdm_response.body.keys[1] # cdm_response.body.keys[2]

\* the error (or the exception it was raised from) holds the status and the
\* body of the answer
CarriesUpstream(e, resp) ==
    /\ {"status", "body"} \subseteq DOMAIN e
    /\ e.status = resp.status
    /\ e.body = resp.body

\* C13: when the key service answered and no key came out of the answer, the
\* error that reaches the orchestrator carries the status and the body of
\* that answer.
Cex_C13_ErrorCarriesStatusBody ==
    (/\ cdm_response # None
     /\ cdm_response.kind = "resp"
     /\ fetch_result(cdm_response) = None)
        => /\ pc = "failed"
           /\ \/ CarriesUpstream(error, cdm_response)
              \/ /\ "context" \in DOMAIN error
                 /\ CarriesUpstream(error.context, cdm_response)

\* C14: a pending key-exchange request ends, and against a service that
\* never answers it ends in the failed state with the error of the
\* key exchange raised from the timeout of the call.
Thm_C14_KeyExchangeEnds ==
    /\ (pc = "key_wait") ~> (pc \in {"download", "failed"})
    /\ (pc = "key_wait" /\ cdm_service = "silent")
          ~> (/\ pc = "failed"
              /\ error # None
              /\ Kind(error) = [type |-> "ValueError",
                                msg |-> "Failed to obtain decryption key",
                                cause |-> "Timeout"])

\* C14 witness: the service stayed silent and the run has failed
Wit_C14_TimedOut ==
    /\ cdm_service = "silent"
    /\ pc = "failed"
    /\ cdm_response # None
    /\ cdm_response.kind = "timeout"

\* C15: no request is issued twice, and after a network failure of a
\* request the run has failed with that request as the last one issued.
Thm_C15_NoRetry ==
    /\ \A i, j \in 1..Len(requests) : i # j => requests[i] # requests[j]
    /\ (check_data # None /\ check_data.kind = "neterr")
          => pc = "failed" /\ requests = <<"film">>
    /\ (api_response # None /\ api_response.kind = "neterr")
          => pc = "failed" /\ requests = <<"film", "secure_url">>
    /\ (manifest # None /\ manifest.kind = "neterr")
          => pc = "failed" /\ requests = <<"film", "secure_url", "manifest">>
    /\ (cdm_response # None /\ cdm_response.kind \in {"neterr", "timeout"})
          => /\ pc = "failed"
             /\ requests = <<"film", "secure_url", "manifest", "cdm">>

\* C15 witness: the connection to the key service broke and the run failed
Wit_C15_KeyServiceDown ==
    /\ pc = "failed"
    /\ cdm_response # None
    /\ cdm_response.kind = "neterr"
    /\ requests = <<"film", "secure_url", "manifest", "cdm">>


(***************************************************************************)
(* Properties of the orchestration                                         *)
(***************************************************************************)
\* the states of the orchestrator: 0 Idle, 1 HeadersReady, 2 ManifestResolved,
\* 3 KeyAcquired, 4 Downloaded, 5 TrackDecrypting, 6 Complete, 7 Failed
Stage(p) ==
    CASE p \in {"generate_headers", "active_session", "prompt",
                "prepare_headers"} -> 0
      [] p \in {"check_region", "secure_url", "manifest"} -> 1
      [] p \in {"key_exchange", "key_wait"} -> 2
      [] p = "download" -> 3
      [] p = "decrypt_video" -> 4
      [] p \in {"process_files", "walk_files"} -> 5
      [] p = "complete" -> 6
      [] OTHER -> 7

\* a step that ends the run in the failed state
FailStep == Next /\ pc' = "failed"

\* one position in each state other than Complete and Failed
FailingPositions ==
    {"active_session", "prompt", "check_region", "secure_url", "manifest",
     "key_wait", "download", "decrypt_video", "process_files"}

\* C16: every step stays in its state, moves to the next state of
\* Idle, HeadersReady, ManifestResolved, KeyAcquired, Downloaded,
\* TrackDecrypting, Complete, or fails; Complete and Failed are never left;
\* requests are issued only with prepared headers, the segment downloader is
\* invoked only with a key, the decryption tool only after the downloader;
\* and in every state but Complete and Failed a failing step is possible.
Thm_C16_StateOrder ==
    /\ [][/\ pc \in {"complete", "failed"} => pc' = pc
          /\ Stage(pc') \in {Stage(pc), Stage(pc) + 1, 7}
          /\ requests' # requests => headers # None
          /\ (invoked = <<>> /\ invoked' # <<>>)
                => /\ invoked' = <<"N_m3u8DL-RE">>
                   /\ decryption_key # Unset
                   /\ requests = <<"film", "secure_url", "manifest", "cdm">>
         ]_vars
    /\ [](pc \in FailingPositions => ENABLED FailStep)

\* C16 witness: a run that went through every state to Complete
Wit_C16_Complete ==
    /\ pc = "complete"
    /\ requests = <<"film", "secure_url", "manifest", "cdm">>
    /\ Len(invoked) >= 3
    /\ invoked[1] = "N_m3u8DL-RE"
    /\ invoked[2] = "shaka-packager video"

Decrypted(f) == IF f.kind = "video_src" THEN VideoOut ELSE AudioOut(f.lang)

AudioFailure(l) == LogEntry("Failed to decrypt audio track", l)

\* C19: a step removes a downloaded video or audio file only if its
\* decrypted output exists, and a track whose decryption was logged as
\* failed still has its source.
Thm_C19_RemoveOnlyVerified ==
    /\ [][\A f \in files \ files' :
             f.kind \in {"video_src", "audio_src"} => Decrypted(f) \in files']_vars
    /\ [](\A l \in Langs :
             (\E i \in 1..Len(log) : log[i] = AudioFailure(l))
                => AudioSrc(l) \in files /\ AudioOut(l) \notin files)

\* C19 witness: at the end one track is decrypted and its source gone, one
\* track failed and its source is kept, the downloaded video is gone
Wit_C19_KeptAndRemoved ==
    /\ pc = "complete"
    /\ VideoSrc \notin files
    /\ VideoOut \in files
    /\ \E l \in Langs : AudioOut(l) \in files /\ AudioSrc(l) \notin files
    /\ \E l \in Langs : AudioSrc(l) \in files /\ AudioOut(l) \notin files

Count(q, x) == Cardinality({i \in 1..Len(q) : q[i] = x})

\* C20: a failed audio track is logged at most once; once one is logged the
\* run still reaches Complete; and at Complete every audio track found was
\* given to the decryption tool once, the failed ones are exactly those
\* logged once, and every subtitle found was moved or its failure logged.
Thm_C20_TrackFailureTolerated ==
    /\ [](\A l \in Langs : Count(log, AudioFailure(l)) <= 1)
    /\ [](pc = "complete" =>
            /\ \A l \in Langs :
                  (AudioSrc(l) \in files \/ AudioOut(l) \in files)
                     => /\ Count(invoked, "shaka-packager audio " \o l) = 1
                        /\ (AudioSrc(l) \in files
                              <=> Count(log, AudioFailure(l)) = 1)
            /\ \A l \in SubLangs :
                  SubSrc(l) \in files
                     => Count(log, LogEntry("Failed to move subtitle file", l)) = 1)
    /\ (\E l \in Langs : Count(log, AudioFailure(l)) = 1) ~> (pc = "complete")

\* C20 witness: of three audio tracks one failed and two were decrypted, the
\* subtitle was moved, and the run is complete
Wit_C20_OneOfThreeFailed ==
    /\ pc = "complete"
    /\ Len(log) = 1
    /\ \E l \in Langs :
          /\ log[1] = AudioFailure(l)
          /\ \A m \in Langs \ {l} : AudioOut(m) \in files
    /\ \E l \in SubLangs : SubOut(l) \in files


(***************************************************************************)
(* The escalation of generate_headers                                      *)
(***************************************************************************)
\* the place of a strategy in the escalation
StrategyRank(s) ==
    CASE s = "cookies" -> 1
      [] s = "session" -> 2
      [] s = "manual" -> 3

\* the strategy a credential came through; the cookie file is the first
\* choice of the manual prompt
StrategyOf(c) ==
    IF c.strategy \in {"cookie_file", "manual"} THEN "manual" ELSE c.strategy

\* C21: the strategies are entered in the order browser store, interactive
\* session, manual values; a strategy is entered only while no earlier one
\* has yielded a credential, and the step on which a strategy yields one
\* returns the headers, so that no further strategy is entered.
Thm_C21_StrategyOrder ==
    [][/\ (attempted' # attempted /\ attempted' # <<>>) =>
            /\ attempted' = Append(attempted, attempted'[Len(attempted')])
            /\ attempted'[1] = "cookies"
            /\ \A i \in 1..Len(attempted) :
                  StrategyRank(attempted[i])
                      < StrategyRank(attempted'[Len(attempted')])
            /\ cred = None
            /\ auth_headers = None
       /\ (cred = None /\ cred' # None) =>
            /\ pc' = "prepare_headers"
            /\ attempted' # <<>>
            /\ attempted'[Len(attempted')] = StrategyOf(cred')
            /\ Truthy(auth_headers')
       /\ (pc \in {"generate_headers", "active_session", "prompt"}
           /\ pc' \in {"active_session", "prompt"}) => cred' = None
      ]_vars

\* C21 witness: the browser store and the interactive session yielded
\* nothing and the manual values ended the escalation
Wit_C21_ThirdStrategyYields ==
    /\ pc = "prepare_headers"
    /\ attempted = <<"cookies", "session", "manual">>
    /\ cred # None
    /\ cred.strategy = "manual"

(***************************************************************************)
(* Interrupts                                                              *)
(***************************************************************************)
\* __main__.py lines 146-153: what main prints or logs for the exception
\* that leaves download_and_decrypt
main_report(e) ==
    IF e.type = "KeyboardInterrupt" THEN "Operation cancelled by user"
    ELSE "An error occurred"

\* C22: once a KeyboardInterrupt was raised in a blocking step the run has
\* failed, takes no further step, and main reports the interruption.
Cex_C22_InterruptReported ==
    interrupted =>
        /\ pc = "failed"
        /\ main_report(error) = "Operation cancelled by user"

(***************************************************************************)
(* The header mapping                                                      *)
(***************************************************************************)
\* C23: the mapping generate_headers returned is left as it was by the
\* step of _prepare_headers that builds the request headers from it.
Cex_C23_HeaderSetNotMutated ==
    [][pc = "prepare_headers" => auth_headers' = auth_headers]_vars

(***************************************************************************)
(* Properties of the cookie strategy                                       *)
(***************************************************************************)
\* C24: get_browser_cookies of an AuthManager built with a browser name
\* other than chrome, firefox and edge raises a ValueError whose message is
\* 'Unsupported browser'.
Cex_C24_UnsupportedBrowser ==
    (browser_name \notin SupportedBrowsers /\ cookie_pc # "get_browser_cookies")
        => /\ cookie_pc = "raised"
           /\ cookie_error.type = "ValueError"
           /\ cookie_error.msg = "Unsupported browser"

(***************************************************************************)
(* A browser without cookies                                               *)
(***************************************************************************)
\* the browser yielded no cookies in this call of generate_headers
NoBrowserCookies ==
    \E i \in 1..Len(errors) : errors[i] = NoCookiesFound

CookieStrategyDone == cookie_pc \in {"returned", "escalate"}

\* the place of the last cookie of domain mubi.com with the given name in
\* the cookies of the browser, 0 when there is none
LastOfMubi(name) ==
    LET idx == {i \in 1..Len(browser_cookies) :
                    /\ browser_cookies[i].domain = "mubi.com"
                    /\ browser_cookies[i].name = name}
    IN  IF idx = {} THEN 0 ELSE Max(idx)

MubiDomain(domain) == domain \in {"mubi.com", ".mubi.com"}

\* C28: the headers the cookie strategy returns are made of the values of
\* an authToken cookie and a dtCustomData cookie whose domains are mubi.com
\* or end with '.mubi.com'.
Cex_C28_OnlyMubiDomains ==
    cookie_pc = "returned" =>
        \E i, j \in 1..Len(browser_cookies) :
            /\ MubiDomain(browser_cookies[i].domain)
            /\ browser_cookies[i].name = "authToken"
            /\ MubiDomain(browser_cookies[j].domain)
            /\ browser_cookies[j].name = "dtCustomData"
            /\ cookie_headers = validate_token(browser_cookies[i].token,
                                               browser_cookies[j].data).headers

(***************************************************************************)
(* Properties of merge_to_mkv                                              *)
(***************************************************************************)
HasVideo == \E i \in 1..Len(media_files) : media_files[i].type = "video"

\* C27: without a 'video' entry merge_to_mkv raises ValueError('No video
\* file found') and mkvmerge is not run; with one, mkvmerge is run exactly
\* once and the result is True exactly when its exit code is 0.
Thm_C27_MergeToMkv ==
    /\ (~HasVideo /\ merge_pc # "merge_to_mkv") =>
            /\ merge_pc = "raised"
            /\ merge_result = "ValueError: No video file found"
            /\ mkvmerge_runs = 0
    /\ HasVideo =>
            /\ merge_pc # "raised"
            /\ mkvmerge_runs = IF merge_pc = "returned" THEN 1 ELSE 0
            /\ merge_pc = "returned" =>
                  /\ merge_result \in {"True", "False"}
                  /\ merge_result = "True" <=> returncode = 0

\* C27 witness: audio and subtitles only, the ValueError was raised and
\* mkvmerge never ran
Wit_C27_NoVideoEntry ==
    /\ merge_pc = "raised"
    /\ Len(media_files) = 2
    /\ media_files[1].type = "audio"
    /\ media_files[2].type = "subtitle"
    /\ mkvmerge_runs = 0

Cex_C30_BoundedRetriesNoTempLeft ==
    db_exists =>
        /\ attempt <= max_retries
        /\ sq_pc = "returned" => sq_result = "cookies"
        /\ sq_pc = "raised" => attempt = max_retries
        /\ sq_pc \in {"returned", "raised"} => temp_files = {}

=============================================================================
